---------------------------- MODULE Spec2Model ----------------------------
(***************************************************************************)
(* The data-preparation scripts of the viewer:                             *)
(*   evals/scripts/prepare_viewer_data.py          (jailbreak, indexed)    *)
(*   evals/scripts/prepare_susceptibility_data.py  (susceptibility)        *)
(*   evals/scripts/add_sample_id.py                (repairs input files)   *)
(*                                                                         *)
(* Representation.  A Python str is a sequence of one-character strings,   *)
(* so that str(), int() and float() are computed and not assumed.  A       *)
(* Python float is the integer 2*x (all magnitudes used are multiples of   *)
(* 0.5).  A Python dict is a sequence of <<key, value>> pairs in insertion *)
(* order.  A JSONL file is [exists, lines]; a line is a record with a      *)
(* "kind": "rec" (a JSON object), "nonobj" (valid JSON that is not an      *)
(* object; has_sample_id says whether 'sample_id' in value holds, as it    *)
(* does of ["sample_id"]) or "bad" (not JSON).  A Python value that may be *)
(* None is <<>> for None and <<v>> for a value v; a key of a JSON object   *)
(* is <<>> when the object lacks the key and <<pv>> when it has it with    *)
(* the Python value pv.  So <<>> is a missing key, << <<>> >> is null,     *)
(* << <<3>> >> is 3 and << << <<>> >> >> is the empty string.              *)
(***************************************************************************)
EXTENDS Integers, Sequences, FiniteSets, TLC

VARIABLES
    pipeline,    \* which script's main() is run: "jailbreak" | "susceptibility"
    models,      \* input_dir.iterdir(): the model directories, in listing order
    input,       \* input tree: model name -> file key -> [exists, lines]
    chunk_size,  \* args.chunk_size (--chunk-size; jailbreak only)
    output,      \* output tree: model name -> [exists, chunks, index]
    pc,          \* main(): "start" | "loop" | "done" | "crashed"
    i,           \* main(): position of the for loop in models
    returned,    \* what each finished call of the current run did
    hist         \* the earlier invocations: their input and final output

vars == <<pipeline, models, input, chunk_size, output, pc, i, returned, hist>>

----------------------------------------------------------------------------
(* Python built-ins *)

Digit(d) == <<"0", "1", "2", "3", "4", "5", "6", "7", "8", "9">>[d + 1]

DigitVal(c) == CHOOSE d \in 0..9 : Digit(d) = c

RECURSIVE NatStr(_)
NatStr(n) == IF n < 10 THEN <<Digit(n)>>
             ELSE NatStr(n \div 10) \o <<Digit(n % 10)>>

\* str(n) for an int n
IntStr(n) == IF n < 0 THEN <<"-">> \o NatStr(-n) ELSE NatStr(n)

RECURSIVE NatVal(_)
NatVal(s) == IF Len(s) = 0 THEN 0
             ELSE 10 * NatVal(SubSeq(s, 1, Len(s) - 1)) + DigitVal(s[Len(s)])

\* int(s) for a str s
ParseInt(s) == IF s[1] = "-" THEN -NatVal(Tail(s)) ELSE NatVal(s)

\* int(x) for a float x: truncation toward zero (x is 2*x here)
FloatToInt(h) == IF h >= 0 THEN h \div 2 ELSE -((-h) \div 2)

\* float(s) for the str of an int
ParseFloat(s) == 2 * ParseInt(s)

\* str(x) for a float x, e.g. "300.0", "-0.5"
FloatStr(h) ==
    LET a == IF h < 0 THEN -h ELSE h
    IN  (IF h < 0 THEN <<"-">> ELSE <<>>)
        \o NatStr(a \div 2) \o <<".">> \o (IF a % 2 = 0 THEN <<"0">> ELSE <<"5">>)

Lowercase == <<"a", "b", "c", "d", "e", "f", "g", "h", "i", "j", "k", "l", "m",
               "n", "o", "p", "q", "r", "s", "t", "u", "v", "w", "x", "y", "z">>

Uppercase == <<"A", "B", "C", "D", "E", "F", "G", "H", "I", "J", "K", "L", "M",
               "N", "O", "P", "Q", "R", "S", "T", "U", "V", "W", "X", "Y", "Z">>

\* the place of character c in the list of characters t
Place(t, c) == CHOOSE k \in 1..Len(t) : t[k] = c

\* str.lower(), one character
LowerChar(c) == IF c \in {Uppercase[k] : k \in 1..26}
                THEN Lowercase[Place(Uppercase, c)] ELSE c

Lower(s) == [k \in 1..Len(s) |-> LowerChar(s[k])]

\* sub in s
Contains(s, sub) ==
    \E k \in 0..(Len(s) - Len(sub)) : SubSeq(s, k + 1, k + Len(sub)) = sub

\* ord(c)
Ord(c) == IF c \in {Lowercase[k] : k \in 1..26} THEN 96 + Place(Lowercase, c)
          ELSE IF c \in {Uppercase[k] : k \in 1..26} THEN 64 + Place(Uppercase, c)
          ELSE CASE c = " " -> 32 [] c = "-" -> 45 [] c = "." -> 46
                 [] c = "?" -> 63 [] c = "_" -> 95
                 [] OTHER -> 48 + DigitVal(c)

\* s < t for two str
RECURSIVE StrLess(_, _)
StrLess(s, t) ==
    IF Len(t) = 0 THEN FALSE
    ELSE IF Len(s) = 0 THEN TRUE
    ELSE IF s[1] # t[1] THEN Ord(s[1]) < Ord(t[1])
    ELSE StrLess(Tail(s), Tail(t))

\* the n-th smallest element of a set of integers
Nth(S, n) == CHOOSE x \in S : Cardinality({y \in S : y < x}) = n - 1

\* s.split(): the maximal runs of characters that are not whitespace
Split(s) ==
    LET starts == {k \in 1..Len(s) : s[k] # " " /\ (k = 1 \/ s[k - 1] = " ")}
        ends   == {k \in 1..Len(s) : s[k] # " " /\ (k = Len(s) \/ s[k + 1] = " ")}
    IN  [n \in 1..Cardinality(starts) |-> SubSeq(s, Nth(starts, n), Nth(ends, n))]

\* ' '.join(words)
RECURSIVE Join(_)
Join(words) ==
    IF words = <<>> THEN <<>>
    ELSE IF Len(words) = 1 THEN words[1]
    ELSE words[1] \o <<" ">> \o Join(Tail(words))

\* s.rstrip(chars)
RStrip(s, chars) ==
    LET keep == {k \in 1..Len(s) : s[k] \notin chars}
    IN  IF keep = {} THEN <<>> ELSE SubSeq(s, 1, Nth(keep, Cardinality(keep)))

\* s.strip()
Strip(s) ==
    LET keep == {k \in 1..Len(s) : s[k] # " "}
    IN  IF keep = {} THEN <<>>
        ELSE SubSeq(s, Nth(keep, 1), Nth(keep, Cardinality(keep)))

\* s.endswith(t)
EndsWith(s, t) ==
    Len(t) <= Len(s) /\ SubSeq(s, Len(s) - Len(t) + 1, Len(s)) = t

\* Python values: None, and a value that is not None
None == <<>>

Val(v) == <<v>>

\* a JSON object's key: missing, or present with a Python value
Absent == <<>>

Key(pv) == <<pv>>

\* entry.get(key, default); entry.get(key) is GetOr(field, None)
GetOr(field, default) == IF field = Absent THEN default ELSE field[1]

\* bool(pv) for None or a str: not None and not empty
Truthy(pv) == pv # None /\ pv[1] # <<>>

\* str(pv) for None or an int, as in an f-string
PyIntStr(pv) == IF pv = None THEN <<"N", "o", "n", "e">> ELSE IntStr(pv[1])

\* str(pv) for None or a float
PyFloatStr(pv) == IF pv = None THEN <<"N", "o", "n", "e">> ELSE FloatStr(pv[1])

\* sorted(S) for a set S of str
SortStr(S) ==
    [n \in 1..Cardinality(S) |->
        CHOOSE x \in S : Cardinality({y \in S : StrLess(y, x)}) = n - 1]

Range(s) == {s[k] : k \in 1..Len(s)}

\* dict: <<key, value>> pairs in insertion order
DictKeys(d) == {d[k][1] : k \in 1..Len(d)}

DictHas(d, key) == key \in DictKeys(d)

DictGet(d, key) == d[CHOOSE k \in 1..Len(d) : d[k][1] = key][2]

\* d[key] = value: a present key keeps its position
DictPut(d, key, value) ==
    IF DictHas(d, key)
    THEN [k \in 1..Len(d) |-> IF d[k][1] = key THEN <<key, value>> ELSE d[k]]
    ELSE Append(d, <<key, value>>)

\* sorted(set of numbers), ascending
RECURSIVE SortAsc(_)
SortAsc(S) == IF S = {} THEN <<>>
              ELSE LET m == CHOOSE x \in S : \A y \in S : x <= y
                   IN  <<m>> \o SortAsc(S \ {m})

\* sorted(set of numbers, reverse=True)
RECURSIVE SortDesc(_)
SortDesc(S) == IF S = {} THEN <<>>
               ELSE LET m == CHOOSE x \in S : \A y \in S : x >= y
                    IN  <<m>> \o SortDesc(S \ {m})

----------------------------------------------------------------------------
(* The output tree.  A directory of chunk files is a set of <<name, content>> *)
(* pairs; the name of chunk_<k>.json is <<"chunk", k>>, the name of           *)
(* q<q>_role_<k>.json is <<"q", q, "role", k>>.                               *)

NoIndex == [exists |-> FALSE, doc |-> <<>>]

NoDir == [exists |-> FALSE, chunks |-> {}, index |-> NoIndex]

FileNames(dir) == {f[1] : f \in dir}

FileContent(dir, name) == (CHOOSE f \in dir : f[1] = name)[2]

\* a write that appends to the file it finds
WriteFile_Append(dir, name, content) ==
    IF name \in FileNames(dir)
    THEN {f \in dir : f[1] # name} \cup {<<name, FileContent(dir, name) \o content>>}
    ELSE dir \cup {<<name, content>>}

\* open(path, 'w') and json.dump: the file holds exactly the new document
WriteFile(dir, name, content) ==
    {f \in dir : f[1] # name} \cup {<<name, content>>}

RECURSIVE WriteFiles(_, _)
WriteFiles(dir, files) ==
    IF files = <<>> THEN dir
    ELSE WriteFiles(WriteFile(dir, Head(files)[1], Head(files)[2]), Tail(files))

\* mkdir(parents=True, exist_ok=True) of the model directory and of chunks/
MakeDirs(old) == [old EXCEPT !.exists = TRUE]

\* 'llama' in model_name.lower()
IsLlama(model_name) == Contains(Lower(model_name), <<"l", "l", "a", "m", "a">>)

----------------------------------------------------------------------------
(* prepare_viewer_data.py *)

FileKeys == <<"unsteered_jailbreak", "unsteered_default",
              "steered_jailbreak", "steered_default">>

\* an existence check that looks at the unsteered files only
AnyFileMissing_UnsteeredOnly(dir) ==
    \E k \in 1..2 : ~dir[FileKeys[k]].exists

\* the "Check if all files exist" loop finds a missing file
AnyFileMissing(dir) == \E k \in 1..Len(FileKeys) : ~dir[FileKeys[k]].exists

\* load_jsonl raises: json.loads fails on a line
JLoadRaises(file) == \E k \in 1..Len(file.lines) : file.lines[k].kind = "bad"

\* load_jsonl, when it returns
JLoadJsonl(file) == file.lines

\* entry['id'] raises: the entry is not a JSON object
SubscriptRaises(entries) ==
    \E k \in 1..Len(entries) : entries[k].kind = "nonobj"

\* set(str(entry['id']) for entry in entries)
IdSet(entries) == {IntStr(entries[k].id) : k \in 1..Len(entries)}

\* valid_ids = unsteered_ids & steered_ids
ValidIds(unsteered_jailbreak, steered_jailbreak) ==
    IdSet(unsteered_jailbreak) \cap IdSet(steered_jailbreak)

\* persona.split() raises: the persona is null
PersonaRaises(entries, valid_ids) ==
    \E k \in 1..Len(entries) :
        /\ IntStr(entries[k].id) \in valid_ids
        /\ GetOr(entries[k].persona, Val(<<>>)) = None

MaxPersonaWords == 10

Ellipsis == <<".", ".", ".">>

\* "Truncate persona to first 10 words (plus ellipsis if truncated)"
PersonaTruncated(entry) ==
    LET persona == GetOr(entry.persona, Val(<<>>))[1]
        persona_words == Split(persona)
    IN  IF Len(persona_words) > MaxPersonaWords
        THEN Val(Join(SubSeq(persona_words, 1, MaxPersonaWords)) \o Ellipsis)
        ELSE Val(persona)

\* {"response": entry.get('response', ''), "score": entry.get('score', '')}
JResponse(entry) ==
    [response |-> GetOr(entry.response, Val(<<>>)),
     score    |-> GetOr(entry.score, Val(<<>>))]

\* the dict built for one unsteered jailbreak entry
NewPrompt(entry) ==
    [id            |-> IntStr(entry.id),
     question      |-> GetOr(entry.question, Val(<<>>)),
     persona       |-> PersonaTruncated(entry),
     harm_category |-> GetOr(entry.harm_category, Val(<<>>)),
     responses     |-> [unsteered |-> << <<"jailbreak", JResponse(entry)>> >>,
                        steered   |-> <<>>]]

\* "Process unsteered jailbreak data first": prompts_data[prompt_id] = {...}
RECURSIVE AddUnsteeredJailbreak(_, _, _)
AddUnsteeredJailbreak(entries, valid_ids, prompts_data) ==
    IF entries = <<>> THEN prompts_data
    ELSE LET entry == Head(entries)
             prompt_id == IntStr(entry.id)
         IN  AddUnsteeredJailbreak(Tail(entries), valid_ids,
                 IF prompt_id \in valid_ids
                 THEN DictPut(prompts_data, prompt_id, NewPrompt(entry))
                 ELSE prompts_data)

\* index["harm_categories"].add(entry['harm_category'])
HarmCategories(entries, valid_ids) ==
    {entries[k].harm_category[1][1] :
        k \in {n \in 1..Len(entries) :
                  /\ IntStr(entries[n].id) \in valid_ids
                  /\ Truthy(GetOr(entries[n].harm_category, None))}}

\* "Add unsteered default responses"
RECURSIVE AddUnsteeredDefault(_, _)
AddUnsteeredDefault(entries, prompts_data) ==
    IF entries = <<>> THEN prompts_data
    ELSE LET entry == Head(entries)
             prompt_id == IntStr(entry.id)
         IN  AddUnsteeredDefault(Tail(entries),
                 IF DictHas(prompts_data, prompt_id)
                 THEN LET p == DictGet(prompts_data, prompt_id)
                      IN  DictPut(prompts_data, prompt_id,
                              [p EXCEPT !.responses.unsteered =
                                  DictPut(@, "default", JResponse(entry))])
                 ELSE prompts_data)

\* int(magnitude_value) raises: the magnitude is null
MagnitudeRaises(entries) ==
    \E k \in 1..Len(entries) : GetOr(entries[k].magnitude, Val(0)) = None

\* magnitude = str(int(magnitude_value))
MagnitudeKey(entry) == IntStr(FloatToInt(GetOr(entry.magnitude, Val(0))[1]))

\* a slot once filled keeps its first record
RECURSIVE AddSteered_KeepFirst(_, _, _)
AddSteered_KeepFirst(entries, kind, steered_by_magnitude) ==
    IF entries = <<>> THEN steered_by_magnitude
    ELSE LET entry == Head(entries)
             magnitude == MagnitudeKey(entry)
             mag_data == IF DictHas(steered_by_magnitude, magnitude)
                         THEN DictGet(steered_by_magnitude, magnitude)
                         ELSE [jailbreak |-> <<>>, default |-> <<>>]
         IN  AddSteered_KeepFirst(Tail(entries), kind,
                 IF DictHas(mag_data[kind], IntStr(entry.id))
                 THEN steered_by_magnitude
                 ELSE DictPut(steered_by_magnitude, magnitude,
                          [mag_data EXCEPT ![kind] =
                              DictPut(@, IntStr(entry.id), JResponse(entry))]))

\* steered_by_magnitude[magnitude][kind][prompt_id] = {...}, kind one of
\* "jailbreak", "default"
RECURSIVE AddSteered(_, _, _)
AddSteered(entries, kind, steered_by_magnitude) ==
    IF entries = <<>> THEN steered_by_magnitude
    ELSE LET entry == Head(entries)
             magnitude == MagnitudeKey(entry)
             mag_data == IF DictHas(steered_by_magnitude, magnitude)
                         THEN DictGet(steered_by_magnitude, magnitude)
                         ELSE [jailbreak |-> <<>>, default |-> <<>>]
         IN  AddSteered(Tail(entries), kind,
                 DictPut(steered_by_magnitude, magnitude,
                     [mag_data EXCEPT ![kind] =
                         DictPut(@, IntStr(entry.id), JResponse(entry))]))

\* sorted(keys, key=lambda x: float(x), reverse=True)
SortKeysByFloatDesc(keys) ==
    LET values == SortDesc({ParseFloat(key) : key \in keys})
    IN  [k \in 1..Len(values) |->
            CHOOSE key \in keys : ParseFloat(key) = values[k]]

\* responses["steered"] of one prompt
RECURSIVE SteeredOf(_, _, _)
SteeredOf(prompt_id, magnitudes, steered_by_magnitude) ==
    IF magnitudes = <<>> THEN <<>>
    ELSE LET magnitude == Head(magnitudes)
             mag_data == DictGet(steered_by_magnitude, magnitude)
             inJ == DictHas(mag_data.jailbreak, prompt_id)
             inD == DictHas(mag_data.default, prompt_id)
             entry ==
                 (IF inJ THEN << <<"jailbreak", DictGet(mag_data.jailbreak, prompt_id)>> >>
                  ELSE <<>>)
                 \o (IF inD THEN << <<"default", DictGet(mag_data.default, prompt_id)>> >>
                     ELSE <<>>)
             rest == SteeredOf(prompt_id, Tail(magnitudes), steered_by_magnitude)
         IN  IF inJ \/ inD THEN << <<magnitude, entry>> >> \o rest ELSE rest

\* "Add steered responses to prompts data"
AttachSteered(prompts_data, steered_by_magnitude) ==
    LET magnitudes == SortKeysByFloatDesc(DictKeys(steered_by_magnitude))
    IN  [k \in 1..Len(prompts_data) |->
            <<prompts_data[k][1],
              [prompts_data[k][2] EXCEPT !.responses.steered =
                  SteeredOf(prompts_data[k][1], magnitudes, steered_by_magnitude)]>>]

\* "Remove prompts that ended up with no steered data"
RemoveUnsteered(prompts_data) ==
    SelectSeq(prompts_data, LAMBDA kv : kv[2].responses.steered # <<>>)

\* prompts_data as it stands at "Save chunk files and build index"
PromptsData(data) ==
    LET valid_ids == ValidIds(data.unsteered_jailbreak, data.steered_jailbreak)
        p1 == AddUnsteeredJailbreak(data.unsteered_jailbreak, valid_ids, <<>>)
        p2 == AddUnsteeredDefault(data.unsteered_default, p1)
        s1 == AddSteered(data.steered_jailbreak, "jailbreak", <<>>)
        s2 == AddSteered(data.steered_default, "default", s1)
    IN  RemoveUnsteered(AttachSteered(p2, s2))

\* range(0, n, step) raises ValueError
RangeRaises(step) == step = 0

\* a chunk count that leaves out a last, shorter chunk
RangeLen_Floor(n, step) == IF step > 0 THEN n \div step ELSE 0

\* len(range(0, n, step))
RangeLen(n, step) == IF step > 0 THEN (n + step - 1) \div step ELSE 0

\* the chunks list of the "Create chunks" loop
JChunks(prompt_items, size) ==
    [c \in 1..RangeLen(Len(prompt_items), size) |->
        LET first == (c - 1) * size + 1
            last  == IF c * size < Len(prompt_items) THEN c * size
                     ELSE Len(prompt_items)
        IN  [k \in 1..(last - first + 1) |-> prompt_items[first + k - 1][2]]]

\* index["prompt_to_chunk_map"] after the "Create chunks" loop
RECURSIVE PromptToChunkMap(_, _, _, _)
PromptToChunkMap(prompt_items, size, k, acc) ==
    IF size <= 0 \/ k > Len(prompt_items) THEN acc
    ELSE PromptToChunkMap(prompt_items, size, k + 1,
             DictPut(acc, prompt_items[k][1],
                 [chunk_index  |-> (k - 1) \div size,
                  prompt_index |-> (k - 1) % size]))

\* sorted(prompt_ids, key=int)
SortIdsByInt(ids) ==
    LET values == SortAsc({ParseInt(id) : id \in ids})
    IN  [k \in 1..Len(values) |-> CHOOSE id \in ids : ParseInt(id) = values[k]]

\* all_magnitudes without the unsteered magnitude added
JAllMagnitudes_NoZero(prompts_data) ==
    UNION {DictKeys(prompts_data[k][2].responses.steered) :
              k \in 1..Len(prompts_data)}

\* all_magnitudes, with "0" added
JAllMagnitudes(prompts_data) ==
    UNION {DictKeys(prompts_data[k][2].responses.steered) :
              k \in 1..Len(prompts_data)} \cup {IntStr(0)}

\* index["magnitudes"]
JMagnitudes(model_name, all_magnitudes) ==
    IF IsLlama(model_name)
    THEN SortAsc({ParseFloat(m) : m \in all_magnitudes})
    ELSE SortDesc({ParseFloat(m) : m \in all_magnitudes})

\* the index document written to index.json
JIndex(model_name, data, size) ==
    LET prompts_data == PromptsData(data)
        valid_ids == ValidIds(data.unsteered_jailbreak, data.steered_jailbreak)
    IN  [model               |-> model_name,
         eval                |-> "jailbreak",
         prompt_ids          |-> SortIdsByInt(DictKeys(prompts_data)),
         magnitudes          |-> JMagnitudes(model_name, JAllMagnitudes(prompts_data)),
         harm_categories     |-> SortStr(HarmCategories(data.unsteered_jailbreak, valid_ids)),
         total_prompts       |-> Len(prompts_data),
         chunk_size          |-> size,
         total_chunks        |-> RangeLen(Len(prompts_data), size),
         prompt_to_chunk_map |-> PromptToChunkMap(prompts_data, size, 1, <<>>)]

\* "Save chunk files": chunk_<k>.json for every chunk, k from 0
JChunkFiles(chunks) == [c \in 1..Len(chunks) |-> << <<"chunk", c - 1>>, chunks[c] >>]

\* process_model_data(model_dir, output_dir, chunk_size): what it returns or
\* raises, and the model's output directory as the call leaves it
ProcessModelData(model_name, dir, old, size) ==
    IF AnyFileMissing(dir)
    THEN [result |-> "none", out |-> old]
    ELSE IF \E k \in 1..Len(FileKeys) : JLoadRaises(dir[FileKeys[k]])
    THEN [result |-> "raise", out |-> old]
    ELSE LET data == [f \in Range(FileKeys) |-> JLoadJsonl(dir[f])]
         IN  IF \/ \E k \in 1..Len(FileKeys) : SubscriptRaises(data[FileKeys[k]])
                \/ PersonaRaises(data.unsteered_jailbreak,
                       ValidIds(data.unsteered_jailbreak, data.steered_jailbreak))
                \/ MagnitudeRaises(data.steered_jailbreak)
                \/ MagnitudeRaises(data.steered_default)
                \/ RangeRaises(size)
             THEN [result |-> "raise", out |-> MakeDirs(old)]
             ELSE [result |-> "index",
                   out |-> [exists |-> TRUE,
                            chunks |-> WriteFiles(old.chunks,
                                          JChunkFiles(JChunks(PromptsData(data), size))),
                            index  |-> [exists |-> TRUE,
                                        doc |-> JIndex(model_name, data, size)]]]

----------------------------------------------------------------------------
(* prepare_susceptibility_data.py *)

DefaultChunkSize == 25

TotalQuestions == 5

\* load_jsonl: [] for a missing file; a line that is not JSON ends the loop
\* and the entries read before it are returned
SLoadJsonl(file) ==
    IF ~file.exists THEN <<>>
    ELSE LET bad == {k \in 1..Len(file.lines) : file.lines[k].kind = "bad"}
         IN  IF bad = {} THEN file.lines
             ELSE SubSeq(file.lines, 1, (CHOOSE k \in bad : \A n \in bad : k <= n) - 1)

\* entry.get(...) raises: the entry is not a JSON object
GetRaises(entries) == \E k \in 1..Len(entries) : entries[k].kind = "nonobj"

\* composite_id = (entry_id, sample_id), sample_id = entry.get('sample_id', 0)
CompositeId(entry) == <<GetOr(entry.id, None), GetOr(entry.sample_id, Val(0))>>

\* group_by_id_and_question: composite_id -> question_id -> [entries]; an
\* entry whose id or question_id is None (null or missing) is passed over
RECURSIVE GroupByIdAndQuestion(_, _)
GroupByIdAndQuestion(data, grouped) ==
    IF data = <<>> THEN grouped
    ELSE LET entry == Head(data)
             composite_id == CompositeId(entry)
             question_id == GetOr(entry.question_id, None)
             questions == IF DictHas(grouped, composite_id)
                          THEN DictGet(grouped, composite_id) ELSE <<>>
             entries == IF DictHas(questions, question_id)
                        THEN DictGet(questions, question_id) ELSE <<>>
             \* grouped once this entry is in
             next == IF GetOr(entry.id, None) # None /\ question_id # None
                     THEN DictPut(grouped, composite_id,
                              DictPut(questions, question_id, Append(entries, entry)))
                     ELSE grouped
         IN  IF next = <<>> THEN GroupByIdAndQuestion(Tail(data), <<>>)
             ELSE GroupByIdAndQuestion(Tail(data), next)

WeirdAi == <<"w", "e", "i", "r", "d", "_", "a", "i">>

WeirdRole == <<"w", "e", "i", "r", "d", "_", "r", "o", "l", "e">>

\* normalize_score
NormalizeScore(score) ==
    IF ~Truthy(score) THEN score
    ELSE IF score = Val(WeirdAi) THEN Val(WeirdRole)
    ELSE score

\* create_response_structure
RECURSIVE CreateResponseStructure(_, _)
CreateResponseStructure(entries, responses) ==
    IF entries = <<>> THEN responses
    ELSE LET entry == Head(entries)
             magnitude == GetOr(entry.magnitude, Val(0))
             response_data ==
                 [response  |-> GetOr(entry.response, Val(<<>>)),
                  score     |-> NormalizeScore(GetOr(entry.score, Val(<<>>))),
                  magnitude |-> magnitude]
         IN  CreateResponseStructure(Tail(entries),
                 IF magnitude = Val(0)
                 THEN [responses EXCEPT !.unsteered = <<response_data>>]
                 ELSE [responses EXCEPT !.steered =
                          DictPut(@, PyFloatStr(magnitude), response_data)])

\* chunk_data(data, chunk_size)
ChunkData(data, size) ==
    [c \in 1..RangeLen(Len(data), size) |->
        SubSeq(data, (c - 1) * size + 1,
               IF c * size < Len(data) THEN c * size ELSE Len(data))]

\* all_magnitudes of process_model
SAllMagnitudes(data) ==
    {data[k].magnitude[1][1] :
        k \in {n \in 1..Len(data) :
                  LET mag == GetOr(data[n].magnitude, None)
                  IN  mag # None /\ mag # Val(0)}}

\* the sort directions of prepare_viewer_data.py
SMagnitudes_AsJailbreak(model_name, all_magnitudes) ==
    IF IsLlama(model_name) THEN SortAsc(all_magnitudes)
    ELSE SortDesc(all_magnitudes)

\* magnitudes of process_model
SMagnitudes(model_name, all_magnitudes) ==
    IF IsLlama(model_name) THEN SortDesc(all_magnitudes)
    ELSE SortAsc(all_magnitudes)

Default == <<"d", "e", "f", "a", "u", "l", "t">>

Unknown == <<"u", "n", "k", "n", "o", "w", "n">>

DefaultSystemPrompt ==
    <<"D", "e", "f", "a", "u", "l", "t", " ", "A", "s", "s", "i", "s", "t",
    "a", "n", "t", " ", "r", "e", "s", "p", "o", "n", "s", "e", " ", "w", "i",
    "t", "h", " ", "n", "o", " ", "s", "p", "e", "c", "i", "f", "i", "c", " ",
    "s", "y", "s", "t", "e", "m", " ", "p", "r", "o", "m", "p", "t">>

\* extract_system_prompt
ExtractSystemPrompt(full_prompt, question, role) ==
    IF ~Truthy(full_prompt) THEN Val(<<>>)
    ELSE IF ~Truthy(question) THEN full_prompt
    ELSE IF role = Val(Default) /\ full_prompt = question
    THEN Val(DefaultSystemPrompt)
    ELSE IF EndsWith(full_prompt[1], question[1])
    THEN LET system_prompt ==
                 Strip(SubSeq(full_prompt[1], 1,
                              Len(full_prompt[1]) - Len(question[1])))
         IN  Val(RStrip(system_prompt, {".", " "}))
    ELSE full_prompt

\* the structured entry of one composite id for one question; role is the
\* first entry's for role-prompted data and 'default' for default data
StructuredEntry(composite_id, entries, kind) ==
    LET first_entry == entries[1]
        question_text == GetOr(first_entry.question, Val(<<>>))
        full_prompt == GetOr(first_entry.prompt, Val(<<>>))
        role == IF kind = "role" THEN GetOr(first_entry.role, Val(Unknown))
                ELSE Val(Default)
    IN  [id            |-> PyIntStr(composite_id[1]) \o <<"_">>
                               \o PyIntStr(composite_id[2]),
         role          |-> role,
         question      |-> question_text,
         system_prompt |-> ExtractSystemPrompt(full_prompt, question_text, role),
         prompt_id     |-> GetOr(first_entry.prompt_id, Val(0)),
         responses     |-> CreateResponseStructure(entries,
                               [unsteered |-> <<>>, steered |-> <<>>])]

\* role_entries / default_entries of one question, before the sort: one
\* structured entry for each composite id that has the question, in the
\* order of grouped.items()
EntriesOfQuestion(grouped, question_id, kind) ==
    LET having == SelectSeq(grouped, LAMBDA kv : DictHas(kv[2], Val(question_id)))
    IN  [n \in 1..Len(having) |->
            StructuredEntry(having[n][1], DictGet(having[n][2], Val(question_id)),
                            kind)]

\* (x.prompt_id, x.id) < (y.prompt_id, y.id)
KeyLess(x, y) ==
    \/ x.prompt_id # None /\ y.prompt_id # None /\ x.prompt_id[1] < y.prompt_id[1]
    \/ x.prompt_id = y.prompt_id /\ StrLess(x.id, y.id)

\* the sort raises TypeError: it compares a prompt_id None with an int
SortRaises(entries) ==
    \E a, b \in 1..Len(entries) :
        entries[a].prompt_id = None /\ entries[b].prompt_id # None

\* list.sort(key=lambda x: (x.get('prompt_id', 0), x['id'])): stable, so an
\* entry comes after those of a smaller key and after the earlier ones of an
\* equal key
SortEntries(entries) ==
    LET Before(a, b) == \/ KeyLess(entries[a], entries[b])
                        \/ ~KeyLess(entries[b], entries[a]) /\ a < b
        Rank(a) == 1 + Cardinality({b \in 1..Len(entries) : Before(b, a)})
    IN  [n \in 1..Len(entries) |->
            entries[CHOOSE a \in 1..Len(entries) : Rank(a) = n]]

\* the chunks of one question and kind ("role" | "default")
SChunks(grouped, question_id, kind) ==
    ChunkData(SortEntries(EntriesOfQuestion(grouped, question_id, kind)),
              DefaultChunkSize)

\* chunk_name of chunk k (from 0) of a question and kind
ChunkName(question_id, kind, k) == <<"q", question_id, kind, k>>

\* the chunk files of one question and kind
SChunkFiles(grouped, question_id, kind) ==
    LET chunks == SChunks(grouped, question_id, kind)
    IN  [c \in 1..Len(chunks) |-> <<ChunkName(question_id, kind, c - 1), chunks[c]>>]

\* role_chunk_names / default_chunk_names
ChunkNames(grouped, question_id, kind) ==
    [c \in 1..Len(SChunks(grouped, question_id, kind)) |->
        ChunkName(question_id, kind, c - 1)]

\* one of the two sorts of a question raises
QuestionRaises(susceptibility_grouped, default_grouped, question_id) ==
    \/ SortRaises(EntriesOfQuestion(susceptibility_grouped, question_id, "role"))
    \/ SortRaises(EntriesOfQuestion(default_grouped, question_id, "default"))

\* the loop over range(total_questions) is left by a raise
LoopRaises(susceptibility_grouped, default_grouped) ==
    \E q \in 0..(TotalQuestions - 1) :
        QuestionRaises(susceptibility_grouped, default_grouped, q)

\* every chunk file written by the loop over range(total_questions), which
\* ends at the first question whose sort raises
RECURSIVE SAllChunkFiles(_, _, _)
SAllChunkFiles(susceptibility_grouped, default_grouped, question_id) ==
    IF \/ question_id >= TotalQuestions
       \/ QuestionRaises(susceptibility_grouped, default_grouped, question_id)
    THEN <<>>
    ELSE SChunkFiles(susceptibility_grouped, question_id, "role")
         \o SChunkFiles(default_grouped, question_id, "default")
         \o SAllChunkFiles(susceptibility_grouped, default_grouped, question_id + 1)

\* the index document written to index.json
SIndex(model_name, all_susceptibility, all_default) ==
    LET susceptibility_grouped == GroupByIdAndQuestion(all_susceptibility, <<>>)
        default_grouped == GroupByIdAndQuestion(all_default, <<>>)
    IN  [model           |-> model_name,
         eval            |-> "susceptibility",
         total_questions |-> TotalQuestions,
         magnitudes      |-> SMagnitudes(model_name,
                                 SAllMagnitudes(all_susceptibility \o all_default)),
         questions       |->
             [q \in 1..TotalQuestions |->
                 <<IntStr(q - 1),
                   [role_prompted_chunks |->
                        ChunkNames(susceptibility_grouped, q - 1, "role"),
                    default_chunks |->
                        ChunkNames(default_grouped, q - 1, "default")]>>]]

SFileKeys == <<"steered_susceptibility", "unsteered_susceptibility",
               "steered_default", "unsteered_default">>

\* process_model(model_name, input_dir, output_dir): what it returns or raises,
\* and the model's output directory as the call leaves it
ProcessModel(model_name, dir, old) ==
    LET all_susceptibility == SLoadJsonl(dir.steered_susceptibility)
                              \o SLoadJsonl(dir.unsteered_susceptibility)
        all_default == SLoadJsonl(dir.steered_default)
                       \o SLoadJsonl(dir.unsteered_default)
    IN  IF all_susceptibility = <<>> /\ all_default = <<>>
        THEN [result |-> "none", out |-> MakeDirs(old)]
        ELSE IF GetRaises(all_susceptibility \o all_default)
        THEN [result |-> "raise", out |-> MakeDirs(old)]
        ELSE LET susceptibility_grouped == GroupByIdAndQuestion(all_susceptibility, <<>>)
                 default_grouped == GroupByIdAndQuestion(all_default, <<>>)
                 chunks == WriteFiles(old.chunks,
                               SAllChunkFiles(susceptibility_grouped, default_grouped, 0))
             IN  IF LoopRaises(susceptibility_grouped, default_grouped)
                 THEN [result |-> "raise",
                       out |-> [MakeDirs(old) EXCEPT !.chunks = chunks]]
                 ELSE [result |-> "index",
                       out |-> [exists |-> TRUE,
                                chunks |-> chunks,
                                index  |-> [exists |-> TRUE,
                                            doc |-> SIndex(model_name, all_susceptibility,
                                                           all_default)]]]

----------------------------------------------------------------------------
(* main() of either script, one model per step *)

\* "Llama-3.3-70B"
Llama == <<"L", "l", "a", "m", "a", "-", "3", ".", "3", "-", "7", "0", "B">>

\* "qwen-3-32b"
Qwen == <<"q", "w", "e", "n", "-", "3", "-", "3", "2", "b">>

ModelNames == {Llama, Qwen}

Ended == {"done", "crashed", "exited"}

\* what the invocation that ends now leaves behind
Finished(out, how) ==
    Append(hist, [input |-> input, chunk_size |-> chunk_size,
                  output |-> out, pc |-> how, returned |-> returned])

\* main() up to its for loop: the model directories are listed; the
\* susceptibility script exits when it finds none
MainStart ==
    /\ pc = "start"
    /\ IF pipeline = "susceptibility" /\ models = <<>>
       THEN /\ pc' = "exited"
            /\ hist' = Finished(output, "exited")
       ELSE /\ pc' = "loop"
            /\ hist' = hist
    /\ i' = 1
    /\ returned' = <<>>
    /\ UNCHANGED <<pipeline, models, input, chunk_size, output>>

\* prepare_viewer_data.main: one iteration of "for model_dir in model_dirs";
\* an exception of process_model_data is not caught and ends the process
JProcess ==
    /\ pipeline = "jailbreak"
    /\ pc = "loop"
    /\ i <= Len(models)
    /\ LET m == models[i]
           r == ProcessModelData(m, input[m], output[m], chunk_size)
           out == [output EXCEPT ![m] = r.out]
       IN  /\ output' = out
           /\ returned' = Append(returned, r.result)
           /\ IF r.result = "raise"
              THEN /\ pc' = "crashed"
                   /\ i' = i
                   /\ hist' = Append(hist,
                          [input |-> input, chunk_size |-> chunk_size,
                           output |-> out, pc |-> "crashed",
                           returned |-> Append(returned, r.result)])
              ELSE /\ pc' = pc
                   /\ i' = i + 1
                   /\ hist' = hist
    /\ UNCHANGED <<pipeline, models, input, chunk_size>>

\* prepare_susceptibility_data.main: one iteration of "for model in models";
\* an exception of process_model is caught and the loop goes on
SProcess ==
    /\ pipeline = "susceptibility"
    /\ pc = "loop"
    /\ i <= Len(models)
    /\ LET m == models[i]
           r == ProcessModel(m, input[m], output[m])
       IN  /\ output' = [output EXCEPT ![m] = r.out]
           /\ returned' = Append(returned, r.result)
    /\ i' = i + 1
    /\ UNCHANGED <<pipeline, models, input, chunk_size, pc, hist>>

\* the for loop is exhausted and main() returns
MainEnd ==
    /\ pc = "loop"
    /\ i > Len(models)
    /\ pc' = "done"
    /\ hist' = Finished(output, "done")
    /\ UNCHANGED <<pipeline, models, input, chunk_size, output, i, returned>>

----------------------------------------------------------------------------
(* Inputs *)

MaxJLines == 3

MaxSLines == 3

\* the number of line k of file number f
Tag(f, k) == 10 * f + k

\* a text of line k of file number f: a letter and the line's number, so
\* that every field of every line has its own
Text(c, f, k) == <<c>> \o NatStr(Tag(f, k))

\* a record of a jailbreak file; every field but id is a key that may be
\* missing
JRec(id, magnitude, question, persona, harm_category, response, score) ==
    [kind |-> "rec", id |-> id, magnitude |-> magnitude, question |-> question,
     persona |-> persona, harm_category |-> harm_category,
     response |-> response, score |-> score]

\* the texts of a jailbreak record, by shape:
\*   "plain"  every key present, a persona of one word
\*   "long"   a persona of eleven words, two spaces after the first; the
\*            harm category and the score are empty strings
\*   "bare"   no text key
\*   "null"   every text key null but the persona, which has a space at
\*            either end
\*   "void"   every text key null
JShaped(id, magnitude, shape, f, k) ==
    CASE shape = "plain" ->
           JRec(id, magnitude, Key(Val(Text("q", f, k))), Key(Val(Text("p", f, k))),
                Key(Val(Text("h", f, k))), Key(Val(Text("r", f, k))),
                Key(Val(Text("s", f, k))))
      [] shape = "long" ->
           JRec(id, magnitude, Key(Val(Text("q", f, k))),
                Key(Val(Text("p", f, k) \o <<" ">>
                        \o [n \in 1..(2 * MaxPersonaWords) |->
                               IF n % 2 = 1 THEN " " ELSE "w"])),
                Key(Val(<<>>)), Key(Val(Text("r", f, k))), Key(Val(<<>>)))
      [] shape = "bare" ->
           JRec(id, magnitude, Absent, Absent, Absent, Absent, Absent)
      [] shape = "null" ->
           JRec(id, magnitude, Key(None),
                Key(Val(<<" ">> \o Text("p", f, k) \o <<" ">>)),
                Key(None), Key(None), Key(None))
      [] OTHER ->
           JRec(id, magnitude, Key(None), Key(None), Key(None), Key(None),
                Key(None))

\* a record of a susceptibility file; every field is a key that may be
\* missing
SRec(id, sample_id, question_id, magnitude, prompt_id, question, prompt, role, response, score) ==
    [kind |-> "rec", id |-> id, sample_id |-> sample_id,
     question_id |-> question_id, magnitude |-> magnitude,
     prompt_id |-> prompt_id, question |-> question, prompt |-> prompt,
     role |-> role, response |-> response, score |-> score]

\* the texts of a susceptibility record, by shape:
\*   "plain"   every key present, the prompt does not end with the question
\*   "suffix"  the prompt is a system prompt, ". " and the question; the
\*             score is 'weird_ai'
\*   "same"    the prompt is the question, the role is 'default', the score
\*             is empty
\*   "bare"    no text key
\*   "null"    every text key null
SShaped(id, sample_id, question_id, magnitude, prompt_id, shape, f, k) ==
    CASE shape = "plain" ->
           SRec(id, sample_id, question_id, magnitude, prompt_id,
                Key(Val(Text("q", f, k))), Key(Val(Text("p", f, k))),
                Key(Val(Text("o", f, k))), Key(Val(Text("r", f, k))),
                Key(Val(Text("s", f, k))))
      [] shape = "suffix" ->
           SRec(id, sample_id, question_id, magnitude, prompt_id,
                Key(Val(Text("q", f, k))),
                Key(Val(Text("p", f, k) \o <<".", " ">> \o Text("q", f, k))),
                Key(Val(Text("o", f, k))), Key(Val(Text("r", f, k))),
                Key(Val(WeirdAi)))
      [] shape = "same" ->
           SRec(id, sample_id, question_id, magnitude, prompt_id,
                Key(Val(Text("q", f, k))), Key(Val(Text("q", f, k))),
                Key(Val(Default)), Key(Val(Text("r", f, k))), Key(Val(<<>>)))
      [] shape = "bare" ->
           SRec(id, sample_id, question_id, magnitude, prompt_id,
                Absent, Absent, Absent, Absent, Absent)
      [] OTHER ->
           SRec(id, sample_id, question_id, magnitude, prompt_id,
                Key(None), Key(None), Key(None), Key(None), Key(None))

File(lines) == [exists |-> TRUE, lines |-> lines]

NoFile == [exists |-> FALSE, lines |-> <<>>]

JIds == {7, 10}

\* 300.0, -300.0, 0.5
JMags == {600, -600, 1}

ChunkSizes == {-1, 0, 1, 2}

\* the lines of jailbreak file number f, from <<id, magnitude, shape>>
JLines(f, s) ==
    [k \in 1..Len(s) |-> JShaped(s[k][1], s[k][2], s[k][3], f, k)]

\* a jailbreak model directory of plain records: ids of the two unsteered
\* files, <<id, magnitude>> of the two steered files
JDir(uj, ud, sj, sd) ==
    [unsteered_jailbreak |->
         File(JLines(1, [k \in 1..Len(uj) |-> <<uj[k], Key(Val(0)), "plain">>])),
     unsteered_default   |->
         File(JLines(2, [k \in 1..Len(ud) |-> <<ud[k], Key(Val(0)), "plain">>])),
     steered_jailbreak   |->
         File(JLines(3, [k \in 1..Len(sj) |->
                            <<sj[k][1], Key(Val(sj[k][2])), "plain">>])),
     steered_default     |->
         File(JLines(4, [k \in 1..Len(sd) |->
                            <<sd[k][1], Key(Val(sd[k][2])), "plain">>]))]

JDirs ==
    {JDir(uj, ud, sj, sd) :
        <<uj, ud, sj, sd>> \in
            UNION {[1..n[1] -> JIds] \X [1..n[2] -> JIds]
                   \X [1..n[3] -> JIds \X JMags] \X [1..n[4] -> JIds \X {600}] :
                   n \in {x \in (0..MaxJLines) \X (0..MaxJLines)
                                 \X (0..MaxJLines) \X (0..MaxJLines) :
                              x[1] + x[2] + x[3] + x[4] <= MaxJLines}}}

SIds == {1, 2}

SQuestions == {0, 5}

\* 300.0, -300.0
SMags == {600, -600}

SSteered == SIds \X SQuestions \X SMags

SUnsteered == SIds \X SQuestions \X {0}

\* the default files hold question 0
SDefaultSteered == SIds \X {0} \X SMags

SDefaultUnsteered == SIds \X {0} \X {0}

\* plain records of file number f, from <<id, question_id, magnitude>>
SLines(f, s) ==
    [k \in 1..Len(s) |->
        SShaped(Key(Val(s[k][1])), Absent, Key(Val(s[k][2])), Key(Val(s[k][3])),
                Absent, "plain", f, k)]

SDir(ss, us, sd, ud) ==
    [steered_susceptibility   |-> File(SLines(1, ss)),
     unsteered_susceptibility |-> File(SLines(2, us)),
     steered_default          |-> File(SLines(3, sd)),
     unsteered_default        |-> File(SLines(4, ud))]

SDirs ==
    {SDir(ss, us, sd, ud) :
        <<ss, us, sd, ud>> \in
            UNION {[1..n[1] -> SSteered] \X [1..n[2] -> SUnsteered]
                   \X [1..n[3] -> SDefaultSteered]
                   \X [1..n[4] -> SDefaultUnsteered] :
                   n \in {x \in (0..MaxSLines) \X (0..MaxSLines)
                                 \X (0..MaxSLines) \X (0..MaxSLines) :
                              x[1] + x[2] + x[3] + x[4] <= MaxSLines}}}

EmptyJDir == [f \in Range(FileKeys) |-> NoFile]

EmptySDir == [f \in Range(SFileKeys) |-> NoFile]

InitCommon ==
    /\ output = [m \in ModelNames |-> NoDir]
    /\ pc = "start"
    /\ i = 1
    /\ returned = <<>>
    /\ hist = <<>>

\* one model directory, any records
Init ==
    /\ pipeline \in {"jailbreak", "susceptibility"}
    /\ \E m \in ModelNames :
          /\ models = <<m>>
          /\ IF pipeline = "jailbreak"
             THEN /\ chunk_size \in ChunkSizes
                  /\ \E d \in JDirs :
                        input = [x \in ModelNames |-> IF x = m THEN d ELSE EmptyJDir]
             ELSE /\ chunk_size = DefaultChunkSize
                  /\ \E d \in SDirs :
                        input = [x \in ModelNames |-> IF x = m THEN d ELSE EmptySDir]
    /\ InitCommon

Next == MainStart \/ JProcess \/ SProcess \/ MainEnd

Spec == Init /\ [][Next]_vars

----------------------------------------------------------------------------
(* A batch of two models, run again on the same output directory, the input *)
(* of one model replaced or given its sample ids between two runs.           *)

MaxRuns == 2

BadLine == [kind |-> "bad"]

\* a line such as [1, 2]: 'sample_id' in it is false or raises
NonObjLine == [kind |-> "nonobj", has_sample_id |-> FALSE]

\* a line such as ["sample_id"]: 'sample_id' in it is true
NonObjSampleIdLine == [kind |-> "nonobj", has_sample_id |-> TRUE]

\* dir with file f deleted
WithoutFile(dir, f) == [dir EXCEPT ![f] = NoFile]

\* dir with line put first in file f
WithLine(dir, f, line) == [dir EXCEPT ![f].lines = <<line>> \o @]

\* dir itself, dir without one of the files missing, dir with a line that is
\* not JSON in one of the files bad, dir with a line that is not an object in
\* one of the files nonobj
Variants(dir, missing, bad, nonobj) ==
    {dir} \cup {WithoutFile(dir, f) : f \in missing}
          \cup {WithLine(dir, f, BadLine) : f \in bad}
          \cup {WithLine(dir, f, NonObjLine) : f \in nonobj}

JBatchDirs ==
    {JDir(<<7, 10>>, <<7>>, << <<7, 600>>, <<10, -600>> >>, << <<7, 600>> >>)}
    \cup Variants(JDir(<<7>>, <<7>>, << <<7, 600>> >>, <<>>),
                  {"unsteered_jailbreak", "steered_jailbreak", "steered_default"},
                  {"unsteered_jailbreak"}, {"steered_jailbreak"})

\* a model directory whose question 1 has one item with a null prompt_id and
\* one with a prompt_id, after an item of question 0
SMixedDir ==
    [EmptySDir EXCEPT !.steered_susceptibility = File(
        <<SShaped(Key(Val(1)), Absent, Key(Val(0)), Key(Val(600)), Absent,
                  "plain", 1, 1),
          SShaped(Key(Val(1)), Absent, Key(Val(1)), Key(Val(600)), Key(None),
                  "plain", 1, 2),
          SShaped(Key(Val(2)), Absent, Key(Val(1)), Key(Val(600)), Key(Val(3)),
                  "plain", 1, 3)>>)]

SBatchDirs ==
    {SDir(<< <<1, 0, 600>>, <<2, 0, -600>> >>, << <<1, 0, 0>> >>,
          << <<1, 0, 600>> >>, << <<1, 0, 0>> >>),
     EmptySDir, SMixedDir,
     WithLine(SDir(<<>>, <<>>, <<>>, << <<1, 0, 0>> >>), "unsteered_default",
              NonObjSampleIdLine)}
    \cup Variants(SDir(<< <<1, 0, 600>> >>, << <<1, 0, 0>> >>, <<>>, <<>>),
                  {"steered_susceptibility"}, {"unsteered_susceptibility"},
                  {"steered_susceptibility"})

BatchDirs == IF pipeline = "jailbreak" THEN JBatchDirs ELSE SBatchDirs

\* input_dir.iterdir() lists the model directories in an arbitrary order
InitBatch ==
    /\ pipeline \in {"jailbreak", "susceptibility"}
    /\ models \in {<<>>, <<Llama, Qwen>>, <<Qwen, Llama>>}
    /\ chunk_size = IF pipeline = "jailbreak" THEN 1 ELSE DefaultChunkSize
    /\ IF models = <<>>
       THEN input = [m \in ModelNames |->
                        IF pipeline = "jailbreak" THEN EmptyJDir ELSE EmptySDir]
       ELSE input \in [ModelNames -> BatchDirs]
    /\ InitCommon

\* the script is started again, same input and output directories
Rerun ==
    /\ pc \in Ended
    /\ Len(hist) < MaxRuns
    /\ pc' = "start"
    /\ i' = 1
    /\ returned' = <<>>
    /\ UNCHANGED <<pipeline, models, input, chunk_size, output, hist>>

\* before a later run the evaluation harness replaces one model's files
EditInput ==
    /\ pc = "start"
    /\ hist # <<>>
    /\ input = hist[Len(hist)].input
    /\ \E m \in Range(models), d \in BatchDirs :
          /\ d # input[m]
          /\ input' = [input EXCEPT ![m] = d]
    /\ UNCHANGED <<pipeline, models, chunk_size, output, pc, i, returned, hist>>

\* the try block of add_sample_id_to_file raises: a line is not JSON, or it
\* is not an object and 'sample_id' not in entry raises or is followed by an
\* assignment that raises
AddSampleIdRaises(file) ==
    \E k \in 1..Len(file.lines) :
        \/ file.lines[k].kind = "bad"
        \/ file.lines[k].kind = "nonobj" /\ ~file.lines[k].has_sample_id

\* add_sample_id_to_file, the file as it is left: every entry without a
\* sample_id gets sample_id 0; a line in which 'sample_id' is found is
\* written back as it is, also when it is not an object; a line that raises
\* leaves the file as it was
AddSampleIdToFile(file) ==
    IF AddSampleIdRaises(file) THEN file
    ELSE [file EXCEPT !.lines =
             [k \in 1..Len(file.lines) |->
                 IF file.lines[k].kind = "rec" /\ file.lines[k].sample_id = Absent
                 THEN [file.lines[k] EXCEPT !.sample_id = Key(Val(0))]
                 ELSE file.lines[k]]]

\* 'gemma-2-27b', 'llama-3.3-70b', 'qwen-3-32b'
SampleIdModels ==
    {<<"g", "e", "m", "m", "a", "-", "2", "-", "2", "7", "b">>,
     <<"l", "l", "a", "m", "a", "-", "3", ".", "3", "-", "7", "0", "b">>,
     <<"q", "w", "e", "n", "-", "3", "-", "3", "2", "b">>}

\* add_sample_id.main(), run before the susceptibility script starts: the two
\* default_50_scores.jsonl files that exist of each of its three models
AddSampleId ==
    /\ pipeline = "susceptibility"
    /\ pc = "start"
    /\ input' = [m \in ModelNames |->
                    IF m \in SampleIdModels \cap Range(models)
                    THEN [f \in Range(SFileKeys) |->
                             IF /\ f \in {"steered_default", "unsteered_default"}
                                /\ input[m][f].exists
                             THEN AddSampleIdToFile(input[m][f])
                             ELSE input[m][f]]
                    ELSE input[m]]
    /\ UNCHANGED <<pipeline, models, chunk_size, output, pc, i, returned, hist>>

NextBatch == Next \/ Rerun \/ EditInput \/ AddSampleId

SpecBatch == InitBatch /\ [][NextBatch]_vars

----------------------------------------------------------------------------
(* One model with many items: chunking *)

MaxItems == 4

MaxSItems == 27

ManyChunkSizes == {1, 2, 3}

\* sequences of distinct elements of S
RECURSIVE Arrangements(_)
Arrangements(S) ==
    {<<>>} \cup UNION {{<<x>> \o t : t \in Arrangements(S \ {x})} : x \in S}

JManyDirs ==
    {JDir(ids, <<>>, [k \in 1..Len(ids) |-> <<ids[k], 600>>], <<>>) :
        ids \in Arrangements(1..MaxItems)}

\* n role-prompted entries and d default entries of question 0
SManyDir(n, d) ==
    SDir([k \in 1..n |-> <<n + 1 - k, 0, 600>>], <<>>,
         <<>>, [k \in 1..d |-> <<k, 0, 0>>])

InitChunk ==
    /\ pipeline \in {"jailbreak", "susceptibility"}
    /\ models = <<Qwen>>
    /\ IF pipeline = "jailbreak"
       THEN /\ chunk_size \in ManyChunkSizes
            /\ \E d \in JManyDirs :
                  input = [x \in ModelNames |-> IF x = Qwen THEN d ELSE EmptyJDir]
       ELSE /\ chunk_size = DefaultChunkSize
            /\ \E n \in 0..MaxSItems, d \in {0, DefaultChunkSize + 1} :
                  input = [x \in ModelNames |->
                              IF x = Qwen THEN SManyDir(n, d) ELSE EmptySDir]
    /\ InitCommon

SpecChunk == InitChunk /\ [][Next]_vars

----------------------------------------------------------------------------
(* One model whose records share ids, keys and slots *)

MaxKJLines == 3

MaxKSLines == 2

\* 300.0 and 300.5: str(int(...)) is "300" for both
KJMags == {600, 601}

\* the records the four jailbreak files may hold, as <<id, magnitude, shape>>
KJRecords ==
    [unsteered_jailbreak |->
         {<<7, Key(Val(0)), "plain">>, <<7, Absent, "long">>, <<7, Absent, "bare">>,
          <<7, Key(Val(0)), "null">>, <<7, Key(Val(0)), "void">>,
          <<10, Key(Val(0)), "plain">>},
     unsteered_default |->
         {<<7, Key(Val(0)), "plain">>, <<10, Absent, "bare">>},
     steered_jailbreak |->
         {<<7, Key(Val(600)), "plain">>, <<7, Key(Val(601)), "plain">>,
          <<7, Absent, "bare">>, <<7, Key(None), "plain">>,
          <<10, Key(Val(600)), "long">>, <<10, Key(Val(601)), "null">>},
     steered_default |->
         {<<7, Key(Val(600)), "plain">>, <<7, Key(Val(601)), "bare">>,
          <<10, Key(Val(600)), "null">>}]

KJDir(uj, ud, sj, sd) ==
    [unsteered_jailbreak |-> File(JLines(1, uj)),
     unsteered_default   |-> File(JLines(2, ud)),
     steered_jailbreak   |-> File(JLines(3, sj)),
     steered_default     |-> File(JLines(4, sd))]

KJDirs ==
    {KJDir(uj, ud, sj, sd) :
        <<uj, ud, sj, sd>> \in
            UNION {[1..n[1] -> KJRecords.unsteered_jailbreak]
                   \X [1..n[2] -> KJRecords.unsteered_default]
                   \X [1..n[3] -> KJRecords.steered_jailbreak]
                   \X [1..n[4] -> KJRecords.steered_default] :
                   n \in {x \in (0..MaxKJLines) \X (0..MaxKJLines)
                                 \X (0..MaxKJLines) \X (0..MaxKJLines) :
                              x[1] + x[2] + x[3] + x[4] <= MaxKJLines}}}

\* the records a susceptibility file may hold, as <<id, sample_id,
\* question_id, magnitude, prompt_id, shape>>
KRecords ==
    {<<Key(Val(1)), Absent,       Key(Val(0)), Key(Val(600)),  Absent,      "plain">>,
     <<Key(Val(1)), Key(Val(0)),  Key(Val(0)), Key(Val(600)),  Key(Val(3)), "suffix">>,
     <<Key(Val(1)), Key(Val(1)),  Key(Val(0)), Key(Val(600)),  Absent,      "same">>,
     <<Key(Val(1)), Key(None),    Key(Val(0)), Key(Val(600)),  Absent,      "plain">>,
     <<Key(Val(1)), Absent,       Key(Val(0)), Key(Val(-600)), Absent,      "bare">>,
     <<Key(Val(1)), Absent,       Key(Val(0)), Key(Val(0)),    Absent,      "suffix">>,
     <<Key(Val(1)), Absent,       Key(Val(0)), Absent,         Key(Val(3)), "null">>,
     <<Key(Val(1)), Absent,       Key(Val(0)), Key(None),      Absent,      "plain">>,
     <<Key(Val(1)), Key(Val(1)),  Key(Val(0)), Key(Val(0)),    Key(None),   "same">>,
     <<Key(Val(1)), Absent,       Key(Val(4)), Key(Val(600)),  Absent,      "same">>,
     <<Key(Val(1)), Absent,       Key(Val(5)), Key(Val(600)),  Absent,      "plain">>,
     <<Key(None),   Absent,       Key(Val(0)), Key(Val(600)),  Absent,      "plain">>,
     <<Key(Val(1)), Absent,       Absent,      Key(Val(600)),  Absent,      "plain">>}

KLines(f, s) ==
    [k \in 1..Len(s) |->
        SShaped(s[k][1], s[k][2], s[k][3], s[k][4], s[k][5], s[k][6], f, k)]

KSDir(ss, us, sd, ud) ==
    [steered_susceptibility   |-> File(KLines(1, ss)),
     unsteered_susceptibility |-> File(KLines(2, us)),
     steered_default          |-> File(KLines(3, sd)),
     unsteered_default        |-> File(KLines(4, ud))]

KSDirs ==
    {KSDir(ss, us, sd, ud) :
        <<ss, us, sd, ud>> \in
            UNION {[1..n[1] -> KRecords] \X [1..n[2] -> KRecords]
                   \X [1..n[3] -> KRecords] \X [1..n[4] -> KRecords] :
                   n \in {x \in (0..MaxKSLines) \X (0..MaxKSLines)
                                 \X (0..MaxKSLines) \X (0..MaxKSLines) :
                              x[1] + x[2] + x[3] + x[4] <= MaxKSLines}}}

InitKeys ==
    /\ pipeline \in {"jailbreak", "susceptibility"}
    /\ models = <<Qwen>>
    /\ IF pipeline = "jailbreak"
       THEN /\ chunk_size \in {1, 2}
            /\ \E d \in KJDirs :
                  input = [x \in ModelNames |-> IF x = Qwen THEN d ELSE EmptyJDir]
       ELSE /\ chunk_size = DefaultChunkSize
            /\ \E d \in KSDirs :
                  input = [x \in ModelNames |-> IF x = Qwen THEN d ELSE EmptySDir]
    /\ InitCommon

SpecKeys == InitKeys /\ [][Next]_vars

----------------------------------------------------------------------------
(* Properties.  returned[k] is what the call for models[k] did in the        *)
(* current run; input is what that run read.                                 *)

Processed == 1..Len(returned)

Completed(k) == returned[k] = "index"

IndexOf(k) == output[models[k]].index.doc

ChunksOf(k) == output[models[k]].chunks

NonDecreasing(s) == \A a, b \in 1..Len(s) : a < b => s[a] <= s[b]

NonIncreasing(s) == \A a, b \in 1..Len(s) : a < b => s[a] >= s[b]

RECURSIVE Concat(_)
Concat(seqs) == IF seqs = <<>> THEN <<>> ELSE Head(seqs) \o Concat(Tail(seqs))

\* the output directory of model m as the current run found it
RunStartOutput(m) ==
    LET n == IF pc \in Ended THEN Len(hist) - 1 ELSE Len(hist)
    IN  IF n >= 1 THEN hist[n].output[m] ELSE NoDir

\* the chunk files of a jailbreak output directory that its index counts
JManifest(out) == {<<"chunk", c>> : c \in 0..(out.index.doc.total_chunks - 1)}

\* the chunk files that a susceptibility index names
SManifest(out) ==
    UNION {Range(out.index.doc.questions[q][2].role_prompted_chunks)
           \cup Range(out.index.doc.questions[q][2].default_chunks) :
              q \in 1..TotalQuestions}

\* the finalized item sequence of a jailbreak model directory
JItems(dir) ==
    LET prompts_data == PromptsData([f \in Range(FileKeys) |-> dir[f].lines])
    IN  [n \in 1..Len(prompts_data) |-> prompts_data[n][2]]

\* id -> chunk/offset -> document.id = id, for every id of the index
Resolvable(out) ==
    LET idx == out.index.doc
    IN  \A n \in 1..Len(idx.prompt_ids) :
           LET id == idx.prompt_ids[n]
           IN  /\ DictHas(idx.prompt_to_chunk_map, id)
               /\ LET e == DictGet(idx.prompt_to_chunk_map, id)
                  IN  /\ e.chunk_index < idx.total_chunks
                      /\ <<"chunk", e.chunk_index>> \in FileNames(out.chunks)
                      /\ LET c == FileContent(out.chunks, <<"chunk", e.chunk_index>>)
                         IN  /\ e.prompt_index < Len(c)
                             /\ c[e.prompt_index + 1].id = id

\* C1: in the jailbreak pipeline, whenever a call completes and writes
\* index.json, whatever the integer chunk size, every id of index.prompt_ids
\* has an entry in prompt_to_chunk_map with chunk_index < total_chunks, and
\* the item at prompt_index of chunk_<chunk_index>.json has that id.
C1_RoundTrip ==
    \A k \in Processed :
       pipeline = "jailbreak" /\ Completed(k) => Resolvable(output[models[k]])

\* the ids of the items in the chunk files the index counts
JChunkIds(out) ==
    UNION {{FileContent(out.chunks, name)[n].id :
               n \in 1..Len(FileContent(out.chunks, name))} :
              name \in JManifest(out) \cap FileNames(out.chunks)}

\* C2: in the jailbreak pipeline the set of ids written to the chunks and
\* the set of index.prompt_ids both equal the intersection of the
\* stringified ids of the unsteered and of the steered jailbreak file.
C2_InnerJoin ==
    \A k \in Processed :
       pipeline = "jailbreak" /\ Completed(k) =>
          LET dir == input[models[k]]
              both == IdSet(dir.unsteered_jailbreak.lines)
                      \cap IdSet(dir.steered_jailbreak.lines)
          IN  /\ Range(IndexOf(k).prompt_ids) = both
              /\ JChunkIds(output[models[k]]) = both

\* C4 as claimed: in both pipelines the index's magnitudes are non-decreasing
\* for a model name containing "llama" and non-increasing for any other.
C4_SameDirection ==
    \A k \in Processed :
       Completed(k) =>
          IF IsLlama(models[k]) THEN NonDecreasing(IndexOf(k).magnitudes)
          ELSE NonIncreasing(IndexOf(k).magnitudes)

\* C4 as amended: the jailbreak index's magnitudes are non-decreasing for a
\* "llama" model name and non-increasing for any other; the susceptibility
\* index's magnitudes are the other way round, non-increasing for a "llama"
\* model name and non-decreasing for any other.
C4_MagnitudeSort ==
    \A k \in Processed :
       Completed(k) =>
          IF IsLlama(models[k]) = (pipeline = "jailbreak")
          THEN NonDecreasing(IndexOf(k).magnitudes)
          ELSE NonIncreasing(IndexOf(k).magnitudes)

\* a susceptibility index of a llama model with two magnitudes, descending
C4_Witness ==
    /\ pipeline = "susceptibility"
    /\ pc = "done"
    /\ models = <<Llama>>
    /\ returned = <<"index">>
    /\ IndexOf(1).magnitudes = <<600, -600>>

\* every item of every chunk file of a directory
AllItems(chunks) ==
    UNION {{f[2][n] : n \in 1..Len(f[2])} : f \in chunks}

\* C6: every item written to a chunk by either pipeline has a non-null
\* responses.unsteered and at least one magnitude in responses.steered.
C6_BothSides ==
    \A k \in Processed :
       Completed(k) =>
          \A item \in AllItems(ChunksOf(k)) :
             /\ item.responses.unsteered # <<>>
             /\ item.responses.steered # <<>>

\* C9: the magnitudes of a jailbreak index contain zero exactly once, those of
\* a susceptibility index never; for model "qwen", id 7 unsteered and steered
\* at 300 and -300, the item has the steered keys "300" and "-300" and the
\* index's magnitudes are [300.0, 0.0, -300.0].
C9_ZeroMagnitude ==
    \A k \in Processed :
       Completed(k) =>
          LET mags == IndexOf(k).magnitudes
              dir == input[models[k]]
          IN  IF pipeline = "jailbreak"
              THEN /\ Cardinality({n \in 1..Len(mags) : mags[n] = 0}) = 1
                   /\ (/\ models[k] = Qwen
                       /\ IdSet(dir.unsteered_jailbreak.lines) = {IntStr(7)}
                       /\ {<<e.id, e.magnitude>> :
                              e \in Range(dir.steered_jailbreak.lines)}
                             = {<<7, Key(Val(600))>>, <<7, Key(Val(-600))>>}
                       /\ dir.steered_default.lines = <<>>)
                      => /\ mags = <<600, 0, -600>>
                         /\ Len(JItems(dir)) = 1
                         /\ JItems(dir)[1].id = IntStr(7)
                         /\ DictKeys(JItems(dir)[1].responses.steered)
                               = {IntStr(300), IntStr(-300)}
                         /\ chunk_size >= 1 =>
                               AllItems(ChunksOf(k)) = {JItems(dir)[1]}
              ELSE \A n \in 1..Len(mags) : mags[n] # 0

\* the scenario of C9, and a magnitude 0.5 whose key is "0" in the same run
C9_Witness ==
    /\ pipeline = "jailbreak"
    /\ pc = "done"
    /\ models = <<Qwen>>
    /\ returned = <<"index">>
    /\ IndexOf(1).magnitudes = <<600, 0, -600>>
    /\ \E item \in AllItems(ChunksOf(1)) :
          DictKeys(item.responses.steered) = {IntStr(300), IntStr(-300)}

\* chunks cut items into pieces of size, the last one possibly shorter
ChunkedAs(items, chunks, size) ==
    /\ Concat(chunks) = items
    /\ \A c \in 1..Len(chunks) :
          /\ c < Len(chunks) => Len(chunks[c]) = size
          /\ Len(chunks[c]) >= 1
          /\ Len(chunks[c]) <= size

\* the files named by a manifest, in its order
ReadChunks(chunks, names) ==
    [c \in 1..Len(names) |-> FileContent(chunks, names[c])]

\* the finalized item sequence of one question and kind of a susceptibility
\* model directory
SItems(dir, question_id, kind) ==
    LET data == IF kind = "role"
                THEN SLoadJsonl(dir.steered_susceptibility)
                     \o SLoadJsonl(dir.unsteered_susceptibility)
                ELSE SLoadJsonl(dir.steered_default)
                     \o SLoadJsonl(dir.unsteered_default)
    IN  SortEntries(EntriesOfQuestion(GroupByIdAndQuestion(data, <<>>),
                                      question_id, kind))

\* C3: in both pipelines, for a chunk size >= 1, the chunk files read in
\* manifest order concatenate to the finalized item sequence; every chunk
\* has chunk-size items but the last, which has between 1 and chunk-size.
C3_Chunking ==
    \A k \in Processed :
       Completed(k) =>
          LET out == output[models[k]]
              dir == input[models[k]]
          IN  IF pipeline = "jailbreak"
              THEN chunk_size >= 1 =>
                      /\ JManifest(out) \subseteq FileNames(out.chunks)
                      /\ ChunkedAs(JItems(dir),
                                   [c \in 1..out.index.doc.total_chunks |->
                                       FileContent(out.chunks, <<"chunk", c - 1>>)],
                                   chunk_size)
              ELSE \A q \in 1..TotalQuestions :
                      LET names == out.index.doc.questions[q][2]
                      IN  /\ SManifest(out) \subseteq FileNames(out.chunks)
                          /\ ChunkedAs(SItems(dir, q - 1, "role"),
                                       ReadChunks(out.chunks, names.role_prompted_chunks),
                                       DefaultChunkSize)
                          /\ ChunkedAs(SItems(dir, q - 1, "default"),
                                       ReadChunks(out.chunks, names.default_chunks),
                                       DefaultChunkSize)

\* more role-prompted items than one chunk holds: a full chunk, then a
\* shorter one
C3_Witness ==
    /\ pipeline = "susceptibility"
    /\ pc = "done"
    /\ returned = <<"index">>
    /\ LET names == IndexOf(1).questions[1][2].role_prompted_chunks
       IN  /\ Len(names) = 2
           /\ Len(FileContent(ChunksOf(1), names[1])) = DefaultChunkSize
           /\ Len(FileContent(ChunksOf(1), names[2])) = 2

\* C5: in a batch of either pipeline an exception raised for one model does
\* not leave the per-model boundary: when main() ends, every model of the
\* batch has been processed.
C5_Isolation ==
    pc \in Ended => Len(returned) = Len(models)

\* C7: two successive runs on the same input and the same output directory
\* leave the same output: the same files with the same content.
C7_Idempotent ==
    \A n \in 1..(Len(hist) - 1) :
       /\ hist[n].input = hist[n + 1].input
       /\ hist[n].chunk_size = hist[n + 1].chunk_size
       => hist[n + 1].output = hist[n].output

\* a second run on unchanged input that wrote chunk files and an index
C7_Witness ==
    /\ Len(hist) = 2
    /\ pc = "done"
    /\ hist[1].input = hist[2].input
    /\ returned = <<"index", "index">>
    /\ \A m \in ModelNames : output[m].chunks # {}

\* one of the files of a model directory does not exist
LacksFile(dir) == \E f \in DOMAIN dir : ~dir[f].exists

\* C8: in the jailbreak pipeline a model with one of its four input files
\* missing is disqualified: process_model_data returns None without raising,
\* the model's output directory is left as it was, and the loop goes on with
\* the next model.
C8_MissingFile ==
    \A k \in Processed :
       pipeline = "jailbreak" /\ LacksFile(input[models[k]]) =>
          /\ returned[k] = "none"
          /\ output[models[k]] = RunStartOutput(models[k])
          /\ i > k

\* the first model lacks a file and is skipped, the second is processed
C8_Witness ==
    /\ pipeline = "jailbreak"
    /\ pc = "done"
    /\ Len(models) = 2
    /\ LacksFile(input[models[1]])
    /\ ~output[models[1]].exists
    /\ returned = <<"none", "index">>

\* C10: after a run for a model completes, every chunk file in the model's
\* chunks directory is named in that run's manifest.
C10_Fresh ==
    \A k \in Processed :
       Completed(k) =>
          FileNames(ChunksOf(k)) \subseteq
             (IF pipeline = "jailbreak" THEN JManifest(output[models[k]])
              ELSE SManifest(output[models[k]]))

\* the entries of a list that satisfy Match, in the list's order
Matching(entries, Match(_)) == SelectSeq(entries, Match)

\* the last entry of a non-empty list
Last(entries) == entries[Len(entries)]

\* the id of the susceptibility item an entry belongs to
SItemId(entry) ==
    PyIntStr(GetOr(entry.id, None)) \o <<"_">>
        \o PyIntStr(GetOr(entry.sample_id, Val(0)))

\* a susceptibility entry has an id, and its question is number q
SInQuestion(entry, q) ==
    GetOr(entry.id, None) # None /\ GetOr(entry.question_id, None) = Val(q)

\* the response slot of its item that a susceptibility entry occupies
SSlot(entry) ==
    IF GetOr(entry.magnitude, Val(0)) = Val(0) THEN <<"unsteered">>
    ELSE PyFloatStr(GetOr(entry.magnitude, Val(0)))

\* what a susceptibility item holds in a slot, <<>> for nothing
SSlotValue(item, slot) ==
    IF slot = <<"unsteered">> THEN item.responses.unsteered
    ELSE IF DictHas(item.responses.steered, slot)
         THEN <<DictGet(item.responses.steered, slot)>>
         ELSE <<>>

\* the entries of one data kind in load order: the steered file, then the
\* unsteered one
SLoaded(dir, kind) ==
    IF kind = "role"
    THEN SLoadJsonl(dir.steered_susceptibility)
         \o SLoadJsonl(dir.unsteered_susceptibility)
    ELSE SLoadJsonl(dir.steered_default) \o SLoadJsonl(dir.unsteered_default)

\* the items of the chunks that a susceptibility index lists under question
\* q (from 0) and a data kind
SIndexedItems(out, q, kind) ==
    LET names == out.index.doc.questions[q + 1][2]
    IN  Concat(ReadChunks(out.chunks,
                          IF kind = "role" THEN names.role_prompted_chunks
                          ELSE names.default_chunks))

\* what a jailbreak item holds in the steered slot of a magnitude key and a
\* kind ("jailbreak" | "default"), <<>> for nothing
JSlotValue(item, magnitude, kind) ==
    IF /\ DictHas(item.responses.steered, magnitude)
       /\ DictHas(DictGet(item.responses.steered, magnitude), kind)
    THEN <<DictGet(DictGet(item.responses.steered, magnitude), kind)>>
    ELSE <<>>

\* C11: a response slot of an output item (a magnitude key and kind of a
\* jailbreak item; the unsteered slot or a magnitude key of a susceptibility
\* item) that one or more loaded records occupy holds the response and score
\* of the last of them in load order (a missing one as '', the susceptibility
\* score with its label remapped), and nothing of any other.
C11_LastWins ==
    \A k \in Processed :
       Completed(k) =>
          LET dir == input[models[k]]
              out == output[models[k]]
          IN  IF pipeline = "jailbreak"
              THEN \A item \in AllItems(out.chunks) :
                      \A kind \in {"jailbreak", "default"} :
                         LET file == IF kind = "jailbreak"
                                     THEN dir.steered_jailbreak.lines
                                     ELSE dir.steered_default.lines
                         IN  \A n \in 1..Len(file) :
                                LET InSlot(e) ==
                                        /\ IntStr(e.id) = item.id
                                        /\ MagnitudeKey(e) = MagnitudeKey(file[n])
                                IN  InSlot(file[n]) =>
                                       LET last == Last(Matching(file, InSlot))
                                       IN  JSlotValue(item, MagnitudeKey(file[n]), kind)
                                              = <<[response |-> GetOr(last.response, Val(<<>>)),
                                                   score    |-> GetOr(last.score, Val(<<>>))]>>
              ELSE \A q \in 0..(TotalQuestions - 1), kind \in {"role", "default"} :
                      \A item \in Range(SIndexedItems(out, q, kind)) :
                         LET loaded == SLoaded(dir, kind)
                         IN  \A n \in 1..Len(loaded) :
                                LET InSlot(e) ==
                                        /\ SInQuestion(e, q)
                                        /\ SItemId(e) = item.id
                                        /\ SSlot(e) = SSlot(loaded[n])
                                    last == Last(Matching(loaded, InSlot))
                                IN  InSlot(loaded[n]) =>
                                       SSlotValue(item, SSlot(loaded[n])) =
                                          <<[response  |-> GetOr(last.response, Val(<<>>)),
                                             score     |-> NormalizeScore(
                                                               GetOr(last.score, Val(<<>>))),
                                             magnitude |-> GetOr(last.magnitude, Val(0))]>>

\* two lines of the steered jailbreak file, magnitudes 300.0 and 300.5 of the
\* same id, occupy the slot "300": the item holds the second line
C11_Witness ==
    /\ pipeline = "jailbreak"
    /\ pc = "done"
    /\ returned = <<"index">>
    /\ LET file == input[models[1]].steered_jailbreak.lines
       IN  /\ Len(file) = 2
           /\ file[1].id = 7 /\ file[1].magnitude = Key(Val(600))
           /\ file[2].id = 7 /\ file[2].magnitude = Key(Val(601))
           /\ \E item \in AllItems(ChunksOf(1)) :
                 /\ item.id = IntStr(7)
                 /\ JSlotValue(item, IntStr(300), "jailbreak")
                       = <<[response |-> Val(Text("r", 3, 2)),
                            score    |-> Val(Text("s", 3, 2))]>>

\* the shared fields of a susceptibility item are those of the first loaded
\* record of its composite key and question
SFirstRecord(dir, out) ==
    \A q \in 0..(TotalQuestions - 1), kind \in {"role", "default"} :
       \A item \in Range(SIndexedItems(out, q, kind)) :
          LET InItem(e) == SInQuestion(e, q) /\ SItemId(e) = item.id
              first == Head(Matching(SLoaded(dir, kind), InItem))
              role == IF kind = "role" THEN GetOr(first.role, Val(Unknown))
                      ELSE Val(Default)
          IN  /\ item.role = role
              /\ item.question = GetOr(first.question, Val(<<>>))
              /\ item.system_prompt =
                    ExtractSystemPrompt(GetOr(first.prompt, Val(<<>>)),
                                        GetOr(first.question, Val(<<>>)), role)
              /\ item.prompt_id = GetOr(first.prompt_id, Val(0))

\* the shared fields of a jailbreak item are those of the first loaded record
\* of its id, a line of the unsteered jailbreak file, which is loaded first
JFirstRecord(dir, out) ==
    \A item \in AllItems(out.chunks) :
       LET InItem(e) == IntStr(e.id) = item.id
           first == Head(Matching(dir.unsteered_jailbreak.lines, InItem))
       IN  /\ item.question = GetOr(first.question, Val(<<>>))
           /\ item.persona = PersonaTruncated(first)
           /\ item.harm_category = GetOr(first.harm_category, Val(<<>>))

\* C12: in both pipelines the shared fields of an output item (jailbreak:
\* question, persona, harm_category; susceptibility: role, question,
\* system_prompt, prompt_id) are those of the first record encountered for the
\* item's composite key (a missing one as its default, the persona cut to ten
\* words, the system prompt derived from the record's prompt), also when later
\* records of the key carry other values.
C12_FirstRecord ==
    \A k \in Processed :
       Completed(k) =>
          IF pipeline = "jailbreak"
          THEN JFirstRecord(input[models[k]], output[models[k]])
          ELSE SFirstRecord(input[models[k]], output[models[k]])

\* the items of the chunks that a susceptibility index lists under the
\* question key str(q) and a data kind; none when the index has no such key
SItemsUnder(out, q, kind) ==
    LET questions == out.index.doc.questions
    IN  IF DictHas(questions, IntStr(q))
        THEN LET names == DictGet(questions, IntStr(q))
             IN  Concat(ReadChunks(out.chunks,
                                   IF kind = "role" THEN names.role_prompted_chunks
                                   ELSE names.default_chunks))
        ELSE <<>>

\* C13: in the susceptibility pipeline, for each data kind, every composite
\* key (id, sample_id or 0 when missing, question_id) of a loaded record whose
\* id and question_id are not null is exactly one item of the chunks the index
\* lists under that question_id, whatever the question_id.
C13_NoKeyLost ==
    \A k \in Processed :
       pipeline = "susceptibility" /\ Completed(k) =>
          \A kind \in {"role", "default"} :
             LET loaded == SLoaded(input[models[k]], kind)
             IN  \A n \in 1..Len(loaded) :
                    LET e == loaded[n]
                    IN  /\ GetOr(e.id, None) # None
                        /\ GetOr(e.question_id, None) # None
                        => LET items == SItemsUnder(output[models[k]],
                                                    e.question_id[1][1], kind)
                           IN  Cardinality({m \in 1..Len(items) :
                                               items[m].id = SItemId(e)}) = 1

=============================================================================
